---------------------------- MODULE Spec2Model ----------------------------
(***************************************************************************)
(* A model of aneurisk/filenames.py: the case-label validator, the path    *)
(* builders, the case-table loader and the reference-point accessors.      *)
(*                                                                         *)
(* Python strings are modelled as sequences of one-character strings, so   *)
(* "C0028a" is <<"C","0","0","2","8","a">>.  A character outside ASCII is   *)
(* one element too, written by its code point: "U+FF14" is the fullwidth   *)
(* digit four, "U+0663" the Arabic-Indic digit three and "U+00B2" the      *)
(* superscript two.  Every digit character of Unicode is listed below.     *)
(*                                                                         *)
(* A call is one atomic step from pc = "idle" to pc = "done"; Return       *)
(* brings the machine back to "idle" for the next call.                    *)
(***************************************************************************)
EXTENDS Integers, Sequences, FiniteSets

VARIABLES
    pc,         \* "idle" (no call in progress) or "done" (a call returned/raised)
    op,         \* name of the function that was called
    case_id,    \* the case identifier argument of the call
    mode,       \* the mode argument (path builders with a mode), else <<>>
    cases_ids,  \* load_cases_data's cases_ids argument
    between_ids,\* load_cases_data's between_ids argument
    moduleFile, \* os.path.realpath(__file__) of the installed module
    disk,       \* the content of the three CSV files during the call
    chainedWrite, \* what an assignment through cases["aneurysmType"].loc
                \* writes to under the installed pandas, during a loading call
    filesRead,  \* the CSV files read by the call, in order
    trace,      \* the order of the steps of the call: "realpath", "join",
                \* "abspath", "validate", "load", "lookup"
    result,     \* what the call returned or raised
    previous    \* what the same call returned or raised the time before,
                \* when the caller has repeated it

vars == <<pc, op, case_id, mode, cases_ids, between_ids, moduleFile, disk,
          chainedWrite, filesRead, trace, result, previous>>

-----------------------------------------------------------------------------
(* Bounds of the model *)

\* identifiers are built from the case numbers 0..MaxNum (and ints down to -MaxNeg)
MaxNum == 101
MaxNeg == 5
\* string labels carry their number zero-padded to 3..MaxWidth digits
MaxWidth == 5
\* path builders are called with case numbers 0..MaxPathNum
MaxPathNum == 29
\* mode strings have at most MaxModeLen characters
MaxModeLen == 2

-----------------------------------------------------------------------------
(* Python string helpers *)

AsciiDigits == {"0", "1", "2", "3", "4", "5", "6", "7", "8", "9"}

DigitChar(d) ==
    CASE d = 0 -> "0" [] d = 1 -> "1" [] d = 2 -> "2" [] d = 3 -> "3"
      [] d = 4 -> "4" [] d = 5 -> "5" [] d = 6 -> "6" [] d = 7 -> "7"
      [] d = 8 -> "8" [] d = 9 -> "9"

(* The digit characters of the Unicode database (version 14.0, the one of   *)
(* CPython 3.11), by code point.                                           *)

\* the non-ASCII characters int() reads as the digit 0
NonAsciiDecimal0 ==
    {"U+0660", "U+06F0", "U+07C0", "U+0966", "U+09E6", "U+0A66", "U+0AE6",
     "U+0B66", "U+0BE6", "U+0C66", "U+0CE6", "U+0D66", "U+0DE6", "U+0E50",
     "U+0ED0", "U+0F20", "U+1040", "U+1090", "U+17E0", "U+1810", "U+1946",
     "U+19D0", "U+1A80", "U+1A90", "U+1B50", "U+1BB0", "U+1C40", "U+1C50",
     "U+A620", "U+A8D0", "U+A900", "U+A9D0", "U+A9F0", "U+AA50", "U+ABF0",
     "U+FF10", "U+104A0", "U+10D30", "U+11066", "U+110F0", "U+11136",
     "U+111D0", "U+112F0", "U+11450", "U+114D0", "U+11650", "U+116C0",
     "U+11730", "U+118E0", "U+11950", "U+11C50", "U+11D50", "U+11DA0",
     "U+16A60", "U+16AC0", "U+16B50", "U+1D7CE", "U+1D7D8", "U+1D7E2",
     "U+1D7EC", "U+1D7F6", "U+1E140", "U+1E2F0", "U+1E950", "U+1FBF0"}

\* the non-ASCII characters int() reads as the digit 1
NonAsciiDecimal1 ==
    {"U+0661", "U+06F1", "U+07C1", "U+0967", "U+09E7", "U+0A67", "U+0AE7",
     "U+0B67", "U+0BE7", "U+0C67", "U+0CE7", "U+0D67", "U+0DE7", "U+0E51",
     "U+0ED1", "U+0F21", "U+1041", "U+1091", "U+17E1", "U+1811", "U+1947",
     "U+19D1", "U+1A81", "U+1A91", "U+1B51", "U+1BB1", "U+1C41", "U+1C51",
     "U+A621", "U+A8D1", "U+A901", "U+A9D1", "U+A9F1", "U+AA51", "U+ABF1",
     "U+FF11", "U+104A1", "U+10D31", "U+11067", "U+110F1", "U+11137",
     "U+111D1", "U+112F1", "U+11451", "U+114D1", "U+11651", "U+116C1",
     "U+11731", "U+118E1", "U+11951", "U+11C51", "U+11D51", "U+11DA1",
     "U+16A61", "U+16AC1", "U+16B51", "U+1D7CF", "U+1D7D9", "U+1D7E3",
     "U+1D7ED", "U+1D7F7", "U+1E141", "U+1E2F1", "U+1E951", "U+1FBF1"}

\* the non-ASCII characters int() reads as the digit 2
NonAsciiDecimal2 ==
    {"U+0662", "U+06F2", "U+07C2", "U+0968", "U+09E8", "U+0A68", "U+0AE8",
     "U+0B68", "U+0BE8", "U+0C68", "U+0CE8", "U+0D68", "U+0DE8", "U+0E52",
     "U+0ED2", "U+0F22", "U+1042", "U+1092", "U+17E2", "U+1812", "U+1948",
     "U+19D2", "U+1A82", "U+1A92", "U+1B52", "U+1BB2", "U+1C42", "U+1C52",
     "U+A622", "U+A8D2", "U+A902", "U+A9D2", "U+A9F2", "U+AA52", "U+ABF2",
     "U+FF12", "U+104A2", "U+10D32", "U+11068", "U+110F2", "U+11138",
     "U+111D2", "U+112F2", "U+11452", "U+114D2", "U+11652", "U+116C2",
     "U+11732", "U+118E2", "U+11952", "U+11C52", "U+11D52", "U+11DA2",
     "U+16A62", "U+16AC2", "U+16B52", "U+1D7D0", "U+1D7DA", "U+1D7E4",
     "U+1D7EE", "U+1D7F8", "U+1E142", "U+1E2F2", "U+1E952", "U+1FBF2"}

\* the non-ASCII characters int() reads as the digit 3
NonAsciiDecimal3 ==
    {"U+0663", "U+06F3", "U+07C3", "U+0969", "U+09E9", "U+0A69", "U+0AE9",
     "U+0B69", "U+0BE9", "U+0C69", "U+0CE9", "U+0D69", "U+0DE9", "U+0E53",
     "U+0ED3", "U+0F23", "U+1043", "U+1093", "U+17E3", "U+1813", "U+1949",
     "U+19D3", "U+1A83", "U+1A93", "U+1B53", "U+1BB3", "U+1C43", "U+1C53",
     "U+A623", "U+A8D3", "U+A903", "U+A9D3", "U+A9F3", "U+AA53", "U+ABF3",
     "U+FF13", "U+104A3", "U+10D33", "U+11069", "U+110F3", "U+11139",
     "U+111D3", "U+112F3", "U+11453", "U+114D3", "U+11653", "U+116C3",
     "U+11733", "U+118E3", "U+11953", "U+11C53", "U+11D53", "U+11DA3",
     "U+16A63", "U+16AC3", "U+16B53", "U+1D7D1", "U+1D7DB", "U+1D7E5",
     "U+1D7EF", "U+1D7F9", "U+1E143", "U+1E2F3", "U+1E953", "U+1FBF3"}

\* the non-ASCII characters int() reads as the digit 4
NonAsciiDecimal4 ==
    {"U+0664", "U+06F4", "U+07C4", "U+096A", "U+09EA", "U+0A6A", "U+0AEA",
     "U+0B6A", "U+0BEA", "U+0C6A", "U+0CEA", "U+0D6A", "U+0DEA", "U+0E54",
     "U+0ED4", "U+0F24", "U+1044", "U+1094", "U+17E4", "U+1814", "U+194A",
     "U+19D4", "U+1A84", "U+1A94", "U+1B54", "U+1BB4", "U+1C44", "U+1C54",
     "U+A624", "U+A8D4", "U+A904", "U+A9D4", "U+A9F4", "U+AA54", "U+ABF4",
     "U+FF14", "U+104A4", "U+10D34", "U+1106A", "U+110F4", "U+1113A",
     "U+111D4", "U+112F4", "U+11454", "U+114D4", "U+11654", "U+116C4",
     "U+11734", "U+118E4", "U+11954", "U+11C54", "U+11D54", "U+11DA4",
     "U+16A64", "U+16AC4", "U+16B54", "U+1D7D2", "U+1D7DC", "U+1D7E6",
     "U+1D7F0", "U+1D7FA", "U+1E144", "U+1E2F4", "U+1E954", "U+1FBF4"}

\* the non-ASCII characters int() reads as the digit 5
NonAsciiDecimal5 ==
    {"U+0665", "U+06F5", "U+07C5", "U+096B", "U+09EB", "U+0A6B", "U+0AEB",
     "U+0B6B", "U+0BEB", "U+0C6B", "U+0CEB", "U+0D6B", "U+0DEB", "U+0E55",
     "U+0ED5", "U+0F25", "U+1045", "U+1095", "U+17E5", "U+1815", "U+194B",
     "U+19D5", "U+1A85", "U+1A95", "U+1B55", "U+1BB5", "U+1C45", "U+1C55",
     "U+A625", "U+A8D5", "U+A905", "U+A9D5", "U+A9F5", "U+AA55", "U+ABF5",
     "U+FF15", "U+104A5", "U+10D35", "U+1106B", "U+110F5", "U+1113B",
     "U+111D5", "U+112F5", "U+11455", "U+114D5", "U+11655", "U+116C5",
     "U+11735", "U+118E5", "U+11955", "U+11C55", "U+11D55", "U+11DA5",
     "U+16A65", "U+16AC5", "U+16B55", "U+1D7D3", "U+1D7DD", "U+1D7E7",
     "U+1D7F1", "U+1D7FB", "U+1E145", "U+1E2F5", "U+1E955", "U+1FBF5"}

\* the non-ASCII characters int() reads as the digit 6
NonAsciiDecimal6 ==
    {"U+0666", "U+06F6", "U+07C6", "U+096C", "U+09EC", "U+0A6C", "U+0AEC",
     "U+0B6C", "U+0BEC", "U+0C6C", "U+0CEC", "U+0D6C", "U+0DEC", "U+0E56",
     "U+0ED6", "U+0F26", "U+1046", "U+1096", "U+17E6", "U+1816", "U+194C",
     "U+19D6", "U+1A86", "U+1A96", "U+1B56", "U+1BB6", "U+1C46", "U+1C56",
     "U+A626", "U+A8D6", "U+A906", "U+A9D6", "U+A9F6", "U+AA56", "U+ABF6",
     "U+FF16", "U+104A6", "U+10D36", "U+1106C", "U+110F6", "U+1113C",
     "U+111D6", "U+112F6", "U+11456", "U+114D6", "U+11656", "U+116C6",
     "U+11736", "U+118E6", "U+11956", "U+11C56", "U+11D56", "U+11DA6",
     "U+16A66", "U+16AC6", "U+16B56", "U+1D7D4", "U+1D7DE", "U+1D7E8",
     "U+1D7F2", "U+1D7FC", "U+1E146", "U+1E2F6", "U+1E956", "U+1FBF6"}

\* the non-ASCII characters int() reads as the digit 7
NonAsciiDecimal7 ==
    {"U+0667", "U+06F7", "U+07C7", "U+096D", "U+09ED", "U+0A6D", "U+0AED",
     "U+0B6D", "U+0BED", "U+0C6D", "U+0CED", "U+0D6D", "U+0DED", "U+0E57",
     "U+0ED7", "U+0F27", "U+1047", "U+1097", "U+17E7", "U+1817", "U+194D",
     "U+19D7", "U+1A87", "U+1A97", "U+1B57", "U+1BB7", "U+1C47", "U+1C57",
     "U+A627", "U+A8D7", "U+A907", "U+A9D7", "U+A9F7", "U+AA57", "U+ABF7",
     "U+FF17", "U+104A7", "U+10D37", "U+1106D", "U+110F7", "U+1113D",
     "U+111D7", "U+112F7", "U+11457", "U+114D7", "U+11657", "U+116C7",
     "U+11737", "U+118E7", "U+11957", "U+11C57", "U+11D57", "U+11DA7",
     "U+16A67", "U+16AC7", "U+16B57", "U+1D7D5", "U+1D7DF", "U+1D7E9",
     "U+1D7F3", "U+1D7FD", "U+1E147", "U+1E2F7", "U+1E957", "U+1FBF7"}

\* the non-ASCII characters int() reads as the digit 8
NonAsciiDecimal8 ==
    {"U+0668", "U+06F8", "U+07C8", "U+096E", "U+09EE", "U+0A6E", "U+0AEE",
     "U+0B6E", "U+0BEE", "U+0C6E", "U+0CEE", "U+0D6E", "U+0DEE", "U+0E58",
     "U+0ED8", "U+0F28", "U+1048", "U+1098", "U+17E8", "U+1818", "U+194E",
     "U+19D8", "U+1A88", "U+1A98", "U+1B58", "U+1BB8", "U+1C48", "U+1C58",
     "U+A628", "U+A8D8", "U+A908", "U+A9D8", "U+A9F8", "U+AA58", "U+ABF8",
     "U+FF18", "U+104A8", "U+10D38", "U+1106E", "U+110F8", "U+1113E",
     "U+111D8", "U+112F8", "U+11458", "U+114D8", "U+11658", "U+116C8",
     "U+11738", "U+118E8", "U+11958", "U+11C58", "U+11D58", "U+11DA8",
     "U+16A68", "U+16AC8", "U+16B58", "U+1D7D6", "U+1D7E0", "U+1D7EA",
     "U+1D7F4", "U+1D7FE", "U+1E148", "U+1E2F8", "U+1E958", "U+1FBF8"}

\* the non-ASCII characters int() reads as the digit 9
NonAsciiDecimal9 ==
    {"U+0669", "U+06F9", "U+07C9", "U+096F", "U+09EF", "U+0A6F", "U+0AEF",
     "U+0B6F", "U+0BEF", "U+0C6F", "U+0CEF", "U+0D6F", "U+0DEF", "U+0E59",
     "U+0ED9", "U+0F29", "U+1049", "U+1099", "U+17E9", "U+1819", "U+194F",
     "U+19D9", "U+1A89", "U+1A99", "U+1B59", "U+1BB9", "U+1C49", "U+1C59",
     "U+A629", "U+A8D9", "U+A909", "U+A9D9", "U+A9F9", "U+AA59", "U+ABF9",
     "U+FF19", "U+104A9", "U+10D39", "U+1106F", "U+110F9", "U+1113F",
     "U+111D9", "U+112F9", "U+11459", "U+114D9", "U+11659", "U+116C9",
     "U+11739", "U+118E9", "U+11959", "U+11C59", "U+11D59", "U+11DA9",
     "U+16A69", "U+16AC9", "U+16B59", "U+1D7D7", "U+1D7E1", "U+1D7EB",
     "U+1D7F5", "U+1D7FF", "U+1E149", "U+1E2F9", "U+1E959", "U+1FBF9"}

\* the characters str.isdigit is true of and str.isdecimal is not:
\* superscripts, subscripts, circled and other decorated digits
NonDecimalDigits ==
    {"U+00B2", "U+00B3", "U+00B9", "U+1369", "U+136A", "U+136B", "U+136C",
     "U+136D", "U+136E", "U+136F", "U+1370", "U+1371", "U+19DA", "U+2070",
     "U+2074", "U+2075", "U+2076", "U+2077", "U+2078", "U+2079", "U+2080",
     "U+2081", "U+2082", "U+2083", "U+2084", "U+2085", "U+2086", "U+2087",
     "U+2088", "U+2089", "U+2460", "U+2461", "U+2462", "U+2463", "U+2464",
     "U+2465", "U+2466", "U+2467", "U+2468", "U+2474", "U+2475", "U+2476",
     "U+2477", "U+2478", "U+2479", "U+247A", "U+247B", "U+247C", "U+2488",
     "U+2489", "U+248A", "U+248B", "U+248C", "U+248D", "U+248E", "U+248F",
     "U+2490", "U+24EA", "U+24F5", "U+24F6", "U+24F7", "U+24F8", "U+24F9",
     "U+24FA", "U+24FB", "U+24FC", "U+24FD", "U+24FF", "U+2776", "U+2777",
     "U+2778", "U+2779", "U+277A", "U+277B", "U+277C", "U+277D", "U+277E",
     "U+2780", "U+2781", "U+2782", "U+2783", "U+2784", "U+2785", "U+2786",
     "U+2787", "U+2788", "U+278A", "U+278B", "U+278C", "U+278D", "U+278E",
     "U+278F", "U+2790", "U+2791", "U+2792", "U+10A40", "U+10A41",
     "U+10A42", "U+10A43", "U+10E60", "U+10E61", "U+10E62", "U+10E63",
     "U+10E64", "U+10E65", "U+10E66", "U+10E67", "U+10E68", "U+11052",
     "U+11053", "U+11054", "U+11055", "U+11056", "U+11057", "U+11058",
     "U+11059", "U+1105A", "U+1F100", "U+1F101", "U+1F102", "U+1F103",
     "U+1F104", "U+1F105", "U+1F106", "U+1F107", "U+1F108", "U+1F109",
     "U+1F10A"}

\* the characters int() reads as the digit d (unicodedata.decimal(c) = d)
DecimalDigitsOf(d) ==
    {DigitChar(d)} \cup
    CASE d = 0 -> NonAsciiDecimal0 [] d = 1 -> NonAsciiDecimal1
      [] d = 2 -> NonAsciiDecimal2 [] d = 3 -> NonAsciiDecimal3
      [] d = 4 -> NonAsciiDecimal4 [] d = 5 -> NonAsciiDecimal5
      [] d = 6 -> NonAsciiDecimal6 [] d = 7 -> NonAsciiDecimal7
      [] d = 8 -> NonAsciiDecimal8 [] d = 9 -> NonAsciiDecimal9

\* the characters int() reads as decimal digits (str.isdecimal)
DecimalDigits == UNION {DecimalDigitsOf(d) : d \in 0..9}

\* the characters str.isdigit is true of: the decimal digits and the
\* characters that are digits without being decimal, such as superscripts
Digits == DecimalDigits \cup NonDecimalDigits

\* str.isdigit on one character
IsDigit(c) == c \in Digits

\* the value int() gives a decimal digit
DigitVal(c) == CHOOSE d \in 0..9 : c \in DecimalDigitsOf(d)

\* the non-ASCII digits the inputs of the model are built from: a fullwidth
\* and an Arabic-Indic decimal digit, and a superscript
FullwidthFour    == "U+FF14"
ArabicIndicThree == "U+0663"
SuperscriptTwo   == "U+00B2"

RECURSIVE StrNat(_)
StrNat(n) == IF n < 10 THEN <<DigitChar(n)>>
             ELSE StrNat(n \div 10) \o <<DigitChar(n % 10)>>

\* str(n) for an int n
Str(n) == IF n < 0 THEN <<"-">> \o StrNat(-n) ELSE StrNat(n)

\* s.rjust(width, fill)
RECURSIVE Rjust(_, _, _)
Rjust(s, width, fill) ==
    IF Len(s) >= width THEN s ELSE Rjust(<<fill>> \o s, width, fill)

\* int(s) raises ValueError("invalid literal for int() ...") unless s is a
\* non-empty string of decimal digits
IntRaises(s) == Len(s) = 0 \/ \E i \in 1..Len(s) : s[i] \notin DecimalDigits

\* int(s) for a non-empty string of decimal digits
RECURSIVE ParseInt(_)
ParseInt(s) ==
    IF Len(s) = 0 THEN 0
    ELSE 10 * ParseInt(SubSeq(s, 1, Len(s) - 1)) + DigitVal(s[Len(s)])

\* s.startswith(p)
StartsWith(s, p) == Len(s) >= Len(p) /\ SubSeq(s, 1, Len(p)) = p

\* s.strip(chars)
RECURSIVE LStrip(_, _)
LStrip(s, chars) ==
    IF Len(s) > 0 /\ s[1] \in chars THEN LStrip(Tail(s), chars) ELSE s

RECURSIVE RStrip(_, _)
RStrip(s, chars) ==
    IF Len(s) > 0 /\ s[Len(s)] \in chars
    THEN RStrip(SubSeq(s, 1, Len(s) - 1), chars) ELSE s

Strip(s, chars) == RStrip(LStrip(s, chars), chars)

-----------------------------------------------------------------------------
(* Values *)

IntId(n)   == [type |-> "int", n |-> n, s |-> <<>>]
StrId(s)   == [type |-> "str", n |-> 0, s |-> s]
\* a value that is neither an int nor a str (3.5, None, True)
OtherId(s) == [type |-> "other", n |-> 0, s |-> s]

NoId == OtherId(<<>>)

Returned(v) ==
    [status |-> "ok", value |-> v, kind |-> "none", id |-> 0,
     choices |-> <<>>, rows |-> <<>>]

\* an exception; kind identifies the exception and its message
Raised(kind, id, choices) ==
    [status |-> "error", value |-> <<>>, kind |-> kind, id |-> id,
     choices |-> choices, rows |-> <<>>]

ReturnedRows(rows) ==
    [status |-> "ok", value |-> <<>>, kind |-> "none", id |-> 0,
     choices |-> <<>>, rows |-> rows]

NoResult ==
    [status |-> "none", value |-> <<>>, kind |-> "none", id |-> 0,
     choices |-> <<>>, rows |-> <<>>]

-----------------------------------------------------------------------------
(* gen_case_label, _get_multiple_ia_cases, _validate_case_label *)

\* mutant: the label is padded to 3 digits
gen_case_label_rjust3(cid) == <<"C">> \o Rjust(Str(cid), 3, "0")

gen_case_label(cid) == <<"C">> \o Rjust(Str(cid), 4, "0")

MultipleIaCaseIds == {28, 57, 74, 88}

\* mutant: case 88 is missing from the registry
_get_multiple_ia_cases_without_88 ==
    [cid \in MultipleIaCaseIds \ {88} |->
        <<gen_case_label(cid) \o <<"a">>, gen_case_label(cid) \o <<"b">>>>]

_get_multiple_ia_cases ==
    [cid \in MultipleIaCaseIds |->
        <<gen_case_label(cid) \o <<"a">>, gen_case_label(cid) \o <<"b">>>>]

\* [label for list_ in _get_multiple_ia_cases().values() for label in list_]
MultipleIaLabels ==
    {_get_multiple_ia_cases[cid][i] :
        cid \in DOMAIN _get_multiple_ia_cases, i \in 1..2}

\* sum(c.isdigit() for c in case_label) == 4
hasFourDigits(s) == Cardinality({i \in 1..Len(s) : IsDigit(s[i])}) = 4

\* mutant: the int branch checks the upper bound only
_validate_case_label_no_lower_bound(case_label) ==
    IF case_label.type = "int" /\ case_label.n < 100
    THEN IF case_label.n \in DOMAIN _get_multiple_ia_cases
         THEN Raised("ambiguous", case_label.n,
                     _get_multiple_ia_cases[case_label.n])
         ELSE Returned(gen_case_label(case_label.n))
    ELSE IF case_label.type = "str"
    THEN LET s == case_label.s
         IN  IF StartsWith(s, <<"C">>) /\ hasFourDigits(s)
             THEN IF IntRaises(SelectSeq(s, IsDigit))
                  THEN Raised("invalid_literal", 0, <<>>)
                  ELSE
                  LET caseId == ParseInt(SelectSeq(s, IsDigit))
                  IN  IF /\ caseId > 0
                         /\ caseId < 100
                         /\ caseId \in DOMAIN _get_multiple_ia_cases
                         /\ s \notin MultipleIaLabels
                      THEN Raised("ambiguous", caseId,
                                  _get_multiple_ia_cases[caseId])
                      ELSE Returned(s)
             ELSE Raised("wrong_format_str", 0, <<>>)
    ELSE Raised("wrong_format_type", 0, <<>>)

_validate_case_label(case_label) ==
    IF case_label.type = "int" /\ case_label.n > 0 /\ case_label.n < 100
    THEN IF case_label.n \in DOMAIN _get_multiple_ia_cases
         THEN Raised("ambiguous", case_label.n,
                     _get_multiple_ia_cases[case_label.n])
         ELSE Returned(gen_case_label(case_label.n))
    ELSE IF case_label.type = "str"
    THEN LET s == case_label.s
         IN  IF StartsWith(s, <<"C">>) /\ hasFourDigits(s)
             THEN IF IntRaises(SelectSeq(s, IsDigit))
                  THEN Raised("invalid_literal", 0, <<>>)
                  ELSE
                  LET caseId == ParseInt(SelectSeq(s, IsDigit))
                  IN  IF /\ caseId > 0
                         /\ caseId < 100
                         /\ caseId \in DOMAIN _get_multiple_ia_cases
                         /\ s \notin MultipleIaLabels
                      THEN Raised("ambiguous", caseId,
                                  _get_multiple_ia_cases[caseId])
                      ELSE Returned(s)
             ELSE Raised("wrong_format_str", 0, <<>>)
    ELSE Raised("wrong_format_type", 0, <<>>)


-----------------------------------------------------------------------------
(* os.path helpers (posixpath) *)

Sep == "/"

\* s.split("/")
RECURSIVE SplitFrom(_, _, _)
SplitFrom(s, i, cur) ==
    IF i > Len(s) THEN <<cur>>
    ELSE IF s[i] = Sep THEN <<cur>> \o SplitFrom(s, i + 1, <<>>)
    ELSE SplitFrom(s, i + 1, Append(cur, s[i]))

Split(s) == SplitFrom(s, 1, <<>>)

\* posixpath.join(a, *p)
RECURSIVE os_path_join(_)
os_path_join(parts) ==
    IF Len(parts) = 1 THEN parts[1]
    ELSE LET path == os_path_join(SubSeq(parts, 1, Len(parts) - 1))
             b    == parts[Len(parts)]
         IN  IF StartsWith(b, <<Sep>>) THEN b
             ELSE IF Len(path) = 0 \/ path[Len(path)] = Sep THEN path \o b
             ELSE path \o <<Sep>> \o b

\* the components kept by posixpath.normpath of an absolute path
RECURSIVE NormComps(_, _)
NormComps(comps, kept) ==
    IF Len(comps) = 0 THEN kept
    ELSE LET c == Head(comps)
         IN  IF c = <<>> \/ c = <<".">> THEN NormComps(Tail(comps), kept)
             ELSE IF c = <<".", ".">>
             THEN NormComps(Tail(comps),
                            IF Len(kept) = 0 THEN kept
                            ELSE SubSeq(kept, 1, Len(kept) - 1))
             ELSE NormComps(Tail(comps), Append(kept, c))

RECURSIVE SlashJoin(_)
SlashJoin(comps) ==
    IF Len(comps) = 0 THEN <<>>
    ELSE <<Sep>> \o Head(comps) \o SlashJoin(Tail(comps))

\* os.path.abspath of an absolute path
os_path_abspath(path) ==
    LET comps == NormComps(Split(path), <<>>)
    IN  IF Len(comps) = 0 THEN <<Sep>> ELSE SlashJoin(comps)

_get_aneurisk_database_path ==
    os_path_abspath(os_path_join(<<moduleFile, <<".", ".">>, <<".", ".">>>>))

-----------------------------------------------------------------------------
(* Path builders *)

ModelsDir     == <<"m","o","d","e","l","s">>
SurfaceDir    == <<"s","u","r","f","a","c","e">>
MorphologyDir == <<"m","o","r","p","h","o","l","o","g","y">>
ExtVtp        == <<".","v","t","p">>
ModelVtp      == <<"m","o","d","e","l">> \o ExtVtp
CenterlinesVtp == <<"c","e","n","t","e","r","l","i","n","e","s">> \o ExtVtp
ModelCfdStl   == <<"m","o","d","e","l","_","c","f","d",".","s","t","l">>
ModelHealthyVtp ==
    <<"m","o","d","e","l","_","h","e","a","l","t","h","y","_",
      "v","e","s","s","e","l">> \o ExtVtp
AneurysmPrefix == <<"a","n","e","u","r","y","s","m","_">>
HullPrefix     == <<"h","u","l","l","_">>
OstiumPrefix   == <<"o","s","t","i","u","m","_">>

\* os.path.join(root, "models", _validate_case_label(case_id), subdir, name):
\* a rejected identifier raises in place of the outer join
PathIn(id, subdir, name) ==
    LET v == _validate_case_label(id)
    IN  IF v.status = "error" THEN v
        ELSE Returned(os_path_join(<<_get_aneurisk_database_path, ModelsDir,
                                     v.value, subdir, name>>))

\* mutant: the centerline is looked for under "surface"
path_to_model_centerline_file_in_surface(id) ==
    PathIn(id, SurfaceDir, CenterlinesVtp)

\* mutant: the mode names a directory instead of a part of the file name
path_to_aneurysm_file_mode_dir(id, m) ==
    LET v == _validate_case_label(id)
    IN  IF v.status = "error" THEN v
        ELSE Returned(os_path_join(<<_get_aneurisk_database_path, ModelsDir,
                                     v.value, SurfaceDir, m,
                                     AneurysmPrefix \o ExtVtp>>))

path_to_vascular_model_file(id)   == PathIn(id, SurfaceDir, ModelVtp)
path_to_model_centerline_file(id) == PathIn(id, MorphologyDir, CenterlinesVtp)
path_to_cfd_model_file(id)        == PathIn(id, SurfaceDir, ModelCfdStl)
path_to_healthy_model_file(id)    == PathIn(id, SurfaceDir, ModelHealthyVtp)
path_to_aneurysm_file(id, m) ==
    PathIn(id, SurfaceDir, AneurysmPrefix \o m \o ExtVtp)
path_to_hull_file(id, m) ==
    PathIn(id, SurfaceDir, HullPrefix \o m \o ExtVtp)
path_to_ostium_file(id, m) ==
    PathIn(id, SurfaceDir, OstiumPrefix \o m \o ExtVtp)

ModeBuilders ==
    {"path_to_aneurysm_file", "path_to_hull_file", "path_to_ostium_file"}

PathBuilders ==
    {"path_to_vascular_model_file", "path_to_model_centerline_file",
     "path_to_cfd_model_file", "path_to_healthy_model_file"} \cup ModeBuilders

\* the path builder named name, called with the identifier id and, for the
\* builders that take one, the mode m
CallBuilder(name, id, m) ==
    CASE name = "path_to_vascular_model_file"   -> path_to_vascular_model_file(id)
      [] name = "path_to_model_centerline_file" ->
             path_to_model_centerline_file(id)
      [] name = "path_to_cfd_model_file"        -> path_to_cfd_model_file(id)
      [] name = "path_to_healthy_model_file"    -> path_to_healthy_model_file(id)
      [] name = "path_to_aneurysm_file"         -> path_to_aneurysm_file(id, m)
      [] name = "path_to_hull_file"             -> path_to_hull_file(id, m)
      [] name = "path_to_ostium_file"           -> path_to_ostium_file(id, m)

-----------------------------------------------------------------------------
(* The CSV files and load_cases_data *)

CasesCsv     == "cases.csv"
PatientsCsv  == "patients.csv"
RefPointsCsv == "referencepoints.csv"

\* the case numbers a dataset on disk may hold
TableNums == {1, 5, 28, 57, 99}

\* the row labels of a case number: two sub-labels for a multi-aneurysm case
LabelsOfNum(n) ==
    IF n \in MultipleIaCaseIds
    THEN {gen_case_label(n) \o <<"a">>, gen_case_label(n) \o <<"b">>}
    ELSE {gen_case_label(n)}

LabelsOf(S) == UNION {LabelsOfNum(n) : n \in S}

NumOfLabel(l) == CHOOSE n \in TableNums : l \in LabelsOfNum(n)

RawType(n) == IF n % 3 = 0 THEN "FUS" ELSE IF n % 3 = 1 THEN "LAT" ELSE "TER"

\* a dataset holding the case numbers S: data/cases.csv, data/patients.csv and
\* data/referencepoints.csv, each indexed by its "id" column
DiskOf(S) ==
    [cases    |-> [l \in LabelsOf(S) |->
                      [aneurysmType |-> RawType(NumOfLabel(l)),
                       patient_id   |-> NumOfLabel(l)]],
     patients |-> [pid \in S |->
                      [sex |-> IF pid % 2 = 0 THEN "F" ELSE "M",
                       age |-> 30 + (pid % 50)]],
     points   |-> [l \in LabelsOf(S) |->
                      [ICABifPoint |-> <<NumOfLabel(l), Len(l), 1>>,
                       DomePoint   |-> <<NumOfLabel(l), Len(l), 2>>]]]

\* the datasets the calls are run on: empty, partial and complete ones
Datasets == {{}, {1}, {28}, {1, 5, 28}, {5, 57, 99}, TableNums}

Disks == {DiskOf(S) : S \in Datasets}

NoDisk == DiskOf({})

\* cases["aneurysmType"].loc[mask] = value assigns to the Series that
\* cases["aneurysmType"] returns.  That Series is a view of the column of
\* the frame in a pandas without Copy-on-Write, and the frame is recoded; it
\* is a copy under Copy-on-Write (always on from pandas 3), and the frame
\* keeps the codes of the file.  The module does not pin the pandas version.
ChainedWrites == {"view", "copy"}

\* the value of the aneurysmType column after the two recoding statements
Recoded(rawType) ==
    IF chainedWrite = "view" /\ rawType = "LAT" THEN "lateral"
    ELSE IF chainedWrite = "view" /\ rawType = "TER" THEN "bifurcation"
    ELSE rawType

\* the data frame built before the rows are selected
LoadedFrame ==
    [l \in DOMAIN disk.cases |->
        [aneurysmType |-> Recoded(disk.cases[l].aneurysmType),
         patient_id   |-> disk.cases[l].patient_id,
         sex          |-> disk.patients[disk.cases[l].patient_id].sex,
         age          |-> disk.patients[disk.cases[l].patient_id].age,
         ICABifPoint  |-> disk.points[l].ICABifPoint,
         DomePoint    |-> disk.points[l].DomePoint,
         numericalId  |-> ParseInt(Strip(l, {"C", "a", "b"}))]]

\* the three pd.read_csv calls of load_cases_data, in order
CsvFilesRead == <<CasesCsv, PatientsCsv, RefPointsCsv>>

\* an optional argument: None, or a collection of ints
NoCasesIds   == [given |-> FALSE, vals |-> {}]
NoBetweenIds == [given |-> FALSE, vals |-> <<>>]
GivenSet(S)  == [given |-> TRUE, vals |-> S]
GivenSeq(q)  == [given |-> TRUE, vals |-> q]

\* Python truth value of an optional collection: None and empty are false
TruthyIds(a)     == a.given /\ a.vals # {}
TruthyBetween(a) == a.given /\ Len(a.vals) > 0

Range(q) == {q[i] : i \in 1..Len(q)}
Min(S) == CHOOSE x \in S : \A y \in S : x <= y
Max(S) == CHOOSE x \in S : \A y \in S : x >= y

Restrict(f, S) == [x \in S |-> f[x]]

\* mutant: the upper end is not checked
OutOfRange_min_only(lo, hi) == lo < 1

\* mutant: the upper end of the range is excluded
InRange_exclusive(x, minCase, maxCase) == x >= minCase /\ x < maxCase

\* min(...) < 1 or max(...) > 99
OutOfRange(lo, hi) == lo < 1 \/ hi > 99

\* (casesIds >= minCase) & (casesIds <= maxCase)
InRange(x, minCase, maxCase) == x >= minCase /\ x <= maxCase

load_cases_data(ids, between) ==
    LET frame == LoadedFrame
    IN  IF TruthyIds(ids)
        THEN IF OutOfRange(Min(ids.vals), Max(ids.vals))
             THEN Raised("range_cases_ids", 0, <<>>)
             ELSE ReturnedRows(Restrict(frame,
                      {l \in DOMAIN frame :
                          frame[l].numericalId \in ids.vals}))
        ELSE IF TruthyBetween(between)
        THEN LET minCase == Min(Range(between.vals))
                 maxCase == Max(Range(between.vals))
             IN  IF OutOfRange(minCase, maxCase)
                 THEN Raised("range_between", 0, <<>>)
                 ELSE ReturnedRows(Restrict(frame,
                          {l \in DOMAIN frame :
                              InRange(frame[l].numericalId, minCase, maxCase)}))
        ELSE ReturnedRows(frame)

-----------------------------------------------------------------------------
(* get_ref_bif_point, get_dome_point *)

\* what a call did: the files it read, the order of its steps, its outcome
Outcome(files, steps, res) ==
    [filesRead |-> files, trace |-> steps, result |-> res]

get_ref_bif_point(id) ==
    LET casesData == load_cases_data(NoCasesIds, NoBetweenIds)
        v         == _validate_case_label(id)
    IN  IF v.status = "error"
        THEN Outcome(CsvFilesRead, <<"load", "validate">>, v)
        ELSE Outcome(CsvFilesRead, <<"load", "validate", "lookup">>,
                     IF v.value \in DOMAIN casesData.rows
                     THEN Returned(casesData.rows[v.value].ICABifPoint)
                     ELSE Raised("key_error", 0, <<>>))

\* mutant: the identifier is validated before the table is loaded
get_dome_point_validate_first(id) ==
    LET v         == _validate_case_label(id)
        casesData == load_cases_data(NoCasesIds, NoBetweenIds)
    IN  IF v.status = "error"
        THEN Outcome(<<>>, <<"validate">>, v)
        ELSE Outcome(CsvFilesRead, <<"validate", "load", "lookup">>,
                     IF v.value \in DOMAIN casesData.rows
                     THEN Returned(casesData.rows[v.value].DomePoint)
                     ELSE Raised("key_error", 0, <<>>))

get_dome_point(id) ==
    LET casesData == load_cases_data(NoCasesIds, NoBetweenIds)
        v         == _validate_case_label(id)
    IN  IF v.status = "error"
        THEN Outcome(CsvFilesRead, <<"load", "validate">>, v)
        ELSE Outcome(CsvFilesRead, <<"load", "validate", "lookup">>,
                     IF v.value \in DOMAIN casesData.rows
                     THEN Returned(casesData.rows[v.value].DomePoint)
                     ELSE Raised("key_error", 0, <<>>))

-----------------------------------------------------------------------------
(* The inputs of the calls *)

StrBodies(maxnum) == {Rjust(Str(n), w, "0") : n \in 0..maxnum, w \in 3..MaxWidth}

\* a body with a non-digit character between its digits
WithInfix(b) == SubSeq(b, 1, 2) \o <<"x">> \o SubSeq(b, 3, Len(b))

Prefixes == {<<>>, <<"C">>, <<"X">>, <<"c">>}
Suffixes == {<<>>, <<"a">>, <<"b">>, <<"c">>, <<"a", "b">>, <<"/", "x">>}

\* a body whose last digit is replaced by the character c
WithLast(b, c) == SubSeq(b, 1, Len(b) - 1) \o <<c>>

StrIdentifiers(maxnum, prefixes, suffixes, lastDigits) ==
    {StrId(p \o m \o s) :
        p \in prefixes,
        m \in StrBodies(maxnum)
                \cup {WithInfix(b) : b \in StrBodies(maxnum)}
                \cup {WithLast(b, c) : b \in StrBodies(maxnum), c \in lastDigits},
        s \in suffixes}
    \cup {StrId(<<>>), StrId(<<"C">>)}

IntIdentifiers(maxnum) == {IntId(n) : n \in (0 - MaxNeg)..maxnum}

OtherIdentifiers ==
    {OtherId(<<"3", ".", "5">>), OtherId(<<"N", "o", "n", "e">>),
     OtherId(<<"T", "r", "u", "e">>)}

\* the identifiers _validate_case_label is called with
Identifiers ==
    StrIdentifiers(MaxNum, Prefixes, Suffixes,
                   {FullwidthFour, ArabicIndicThree, SuperscriptTwo})
        \cup IntIdentifiers(MaxNum)
        \cup OtherIdentifiers

\* the identifiers the path builders and the point accessors are called with
PathIdentifiers ==
    StrIdentifiers(MaxPathNum, {<<"C">>, <<"X">>},
                   {<<>>, <<"a">>, <<"/", "x">>}, {SuperscriptTwo})
        \cup IntIdentifiers(MaxPathNum) \cup OtherIdentifiers

ModeChars == {"m", "/"}
Modes == UNION {[1..k -> ModeChars] : k \in 0..MaxModeLen}

\* the values the selectors of load_cases_data are drawn from
QueryVals == {0, 1, 5, 28, 99, 100}
CasesIdsArgs == {NoCasesIds} \cup {GivenSet(S) : S \in SUBSET QueryVals}
BetweenIdsArgs ==
    {NoBetweenIds, GivenSeq(<<>>)}
        \cup {GivenSeq(<<a, b>>) : a \in QueryVals, b \in QueryVals}

\* where the module may be installed: "/a/f.py" and "/d/a/f.py"
ModuleFiles ==
    {<<"/", "a", "/", "f", ".", "p", "y">>,
     <<"/", "d", "/", "a", "/", "f", ".", "p", "y">>}

-----------------------------------------------------------------------------
(* The state machine *)

Init ==
    /\ pc = "idle"
    /\ op = "none"
    /\ case_id = NoId
    /\ mode = <<>>
    /\ cases_ids = NoCasesIds
    /\ between_ids = NoBetweenIds
    /\ moduleFile \in ModuleFiles
    /\ disk = NoDisk
    /\ chainedWrite = "none"
    /\ previous = NoResult
    /\ filesRead = <<>>
    /\ trace = <<>>
    /\ result = NoResult

\* the calls _get_aneurisk_database_path() makes, in order: the inner
\* os.path.join is run on the result of realpath, abspath on its result
RootSteps == <<"realpath", "join", "abspath">>

\* the steps of a path builder: the arguments of the outer os.path.join are
\* evaluated left to right, so the root is resolved before the identifier is
\* validated, and the outer join runs only when the validator has returned
BuilderSteps(res) ==
    RootSteps \o <<"validate">> \o
        (IF res.status = "error" THEN <<>> ELSE <<"join">>)

\* a call that touches no file
Pure(name, id, m, res, steps) ==
    /\ pc' = "done"
    /\ op' = name
    /\ case_id' = id
    /\ mode' = m
    /\ result' = res
    /\ filesRead' = <<>>
    /\ trace' = steps
    /\ UNCHANGED <<cases_ids, between_ids, moduleFile, disk, chainedWrite,
                   previous>>

ValidateCaseLabel ==
    /\ pc = "idle"
    /\ \E id \in Identifiers :
           Pure("_validate_case_label", id, <<>>, _validate_case_label(id),
                <<"validate">>)

PathToVascularModelFile ==
    /\ pc = "idle"
    /\ \E id \in PathIdentifiers :
           Pure("path_to_vascular_model_file", id, <<>>,
                path_to_vascular_model_file(id),
                BuilderSteps(path_to_vascular_model_file(id)))

PathToModelCenterlineFile ==
    /\ pc = "idle"
    /\ \E id \in PathIdentifiers :
           Pure("path_to_model_centerline_file", id, <<>>,
                path_to_model_centerline_file(id),
                BuilderSteps(path_to_model_centerline_file(id)))

PathToCfdModelFile ==
    /\ pc = "idle"
    /\ \E id \in PathIdentifiers :
           Pure("path_to_cfd_model_file", id, <<>>,
                path_to_cfd_model_file(id),
                BuilderSteps(path_to_cfd_model_file(id)))

PathToHealthyModelFile ==
    /\ pc = "idle"
    /\ \E id \in PathIdentifiers :
           Pure("path_to_healthy_model_file", id, <<>>,
                path_to_healthy_model_file(id),
                BuilderSteps(path_to_healthy_model_file(id)))

PathToAneurysmFile ==
    /\ pc = "idle"
    /\ \E id \in PathIdentifiers, m \in Modes :
           Pure("path_to_aneurysm_file", id, m,
                path_to_aneurysm_file(id, m),
                BuilderSteps(path_to_aneurysm_file(id, m)))

PathToHullFile ==
    /\ pc = "idle"
    /\ \E id \in PathIdentifiers, m \in Modes :
           Pure("path_to_hull_file", id, m,
                path_to_hull_file(id, m),
                BuilderSteps(path_to_hull_file(id, m)))

PathToOstiumFile ==
    /\ pc = "idle"
    /\ \E id \in PathIdentifiers, m \in Modes :
           Pure("path_to_ostium_file", id, m,
                path_to_ostium_file(id, m),
                BuilderSteps(path_to_ostium_file(id, m)))

LoadCasesData ==
    /\ pc = "idle"
    /\ \E ids \in CasesIdsArgs, between \in BetweenIdsArgs, d \in Disks,
          w \in ChainedWrites :
        /\ pc' = "done"
        /\ op' = "load_cases_data"
        /\ cases_ids' = ids
        /\ between_ids' = between
        /\ disk' = d
        /\ chainedWrite' = w
        /\ filesRead' = CsvFilesRead
        /\ trace' = <<"load">>
        /\ result' = load_cases_data(ids, between)'
        /\ UNCHANGED <<case_id, mode, moduleFile, previous>>

\* the caller makes the path-builder call it has just made once more, with
\* the same identifier and mode; the module is where it was, and the call
\* runs in the state the first call has left
RepeatPathCall ==
    /\ pc = "done"
    /\ op \in PathBuilders
    /\ previous = NoResult
    /\ previous' = result
    /\ result' = CallBuilder(op, case_id, mode)
    /\ trace' = BuilderSteps(CallBuilder(op, case_id, mode))
    /\ UNCHANGED <<pc, op, case_id, mode, cases_ids, between_ids, moduleFile,
                   disk, chainedWrite, filesRead>>

GetRefBifPoint ==
    /\ pc = "idle"
    /\ \E id \in PathIdentifiers, d \in Disks, w \in ChainedWrites :
        /\ pc' = "done"
        /\ op' = "get_ref_bif_point"
        /\ case_id' = id
        /\ disk' = d
        /\ chainedWrite' = w
        /\ filesRead' = get_ref_bif_point(id)'.filesRead
        /\ trace' = get_ref_bif_point(id)'.trace
        /\ result' = get_ref_bif_point(id)'.result
        /\ UNCHANGED <<mode, cases_ids, between_ids, moduleFile, previous>>

GetDomePoint ==
    /\ pc = "idle"
    /\ \E id \in PathIdentifiers, d \in Disks, w \in ChainedWrites :
        /\ pc' = "done"
        /\ op' = "get_dome_point"
        /\ case_id' = id
        /\ disk' = d
        /\ chainedWrite' = w
        /\ filesRead' = get_dome_point(id)'.filesRead
        /\ trace' = get_dome_point(id)'.trace
        /\ result' = get_dome_point(id)'.result
        /\ UNCHANGED <<mode, cases_ids, between_ids, moduleFile, previous>>

\* the caller has taken the result; the next call starts afresh
Return ==
    /\ pc = "done"
    /\ pc' = "idle"
    /\ op' = "none"
    /\ case_id' = NoId
    /\ mode' = <<>>
    /\ cases_ids' = NoCasesIds
    /\ between_ids' = NoBetweenIds
    /\ disk' = NoDisk
    /\ chainedWrite' = "none"
    /\ filesRead' = <<>>
    /\ trace' = <<>>
    /\ result' = NoResult
    /\ previous' = NoResult
    /\ UNCHANGED moduleFile

NextValidate == ValidateCaseLabel \/ Return

NextPath ==
    \/ PathToVascularModelFile
    \/ PathToModelCenterlineFile
    \/ PathToCfdModelFile
    \/ PathToHealthyModelFile
    \/ PathToAneurysmFile
    \/ PathToHullFile
    \/ PathToOstiumFile
    \/ RepeatPathCall
    \/ Return

NextLoad == LoadCasesData \/ Return

NextPoint == GetRefBifPoint \/ GetDomePoint \/ Return

\* the validator alone
SpecValidate == Init /\ [][NextValidate]_vars
\* the path builders
SpecPath == Init /\ [][NextPath]_vars
\* the case-table loader
SpecLoad == Init /\ [][NextLoad]_vars
\* the reference-point accessors
SpecPoint == Init /\ [][NextPoint]_vars

Next == NextValidate \/ NextPath \/ NextLoad \/ NextPoint

Spec == Init /\ [][Next]_vars

-----------------------------------------------------------------------------
(* Properties of _validate_case_label (checked under SpecValidate) *)

Called(name) == pc = "done" /\ op = name

ValidateCalled == Called("_validate_case_label")

\* "C00nn" for a two-digit n, written out
BareLabel(n) == <<"C", "0", "0", DigitChar(n \div 10), DigitChar(n % 10)>>

\* the messages "Wrong label format ..." of the str branch and of the last branch
MalformedKinds == {"wrong_format_str", "wrong_format_type"}

\* the number of digit characters of a string
CountDigits(s) == Cardinality({i \in 1..Len(s) : s[i] \in Digits})

\* C1: for n in {28, 57, 74, 88} the int n and the bare label "C00nn" are
\* rejected with the ambiguity error naming exactly "C00nna" and "C00nnb",
\* and each of these two sub-labels is accepted and returned unchanged.
C1_SubLabelMandatory ==
    ValidateCalled =>
        \A n \in {28, 57, 74, 88} :
            LET a == BareLabel(n) \o <<"a">>
                b == BareLabel(n) \o <<"b">>
            IN  /\ case_id \in {IntId(n), StrId(BareLabel(n))} =>
                       /\ result.status = "error"
                       /\ result.kind = "ambiguous"
                       /\ result.id = n
                       /\ result.choices = <<a, b>>
                /\ case_id \in {StrId(a), StrId(b)} =>
                       result = Returned(case_id.s)

C1_Witness ==
    /\ ValidateCalled
    /\ case_id = StrId(BareLabel(88))
    /\ result.kind = "ambiguous"

\* C2: for an int n in 1..99 outside {28, 57, 74, 88} the call returns "C"
\* followed by n zero-padded to 4 digits.
C2_IntLabel ==
    (/\ ValidateCalled
     /\ case_id.type = "int"
     /\ case_id.n \in (1..99) \ {28, 57, 74, 88}) =>
        result = Returned(BareLabel(case_id.n))

C2_Witness ==
    /\ ValidateCalled
    /\ case_id = IntId(7)
    /\ result.value = <<"C", "0", "0", "0", "7">>

\* "C", 4 digits, then nothing or a single "a" or "b"
IsCanonical(l) ==
    /\ Len(l) \in {5, 6}
    /\ l[1] = "C"
    /\ \A i \in 2..5 : l[i] \in Digits
    /\ Len(l) = 6 => l[6] \in {"a", "b"}

\* C3: every label returned on success is canonical: "C", exactly 4 digits,
\* then optionally a single "a" or "b" and nothing else.
C3_ReturnedLabelCanonical ==
    (ValidateCalled /\ result.status = "ok") => IsCanonical(result.value)

\* C4 as claimed: an int outside 1..99 is rejected with an error kind other
\* than the malformed-label errors (wrong string shape, wrong input type).
C4_OutOfRangeKindDistinct ==
    (/\ ValidateCalled
     /\ case_id.type = "int"
     /\ case_id.n \notin 1..99) =>
        /\ result.status = "error"
        /\ result.kind \notin MalformedKinds

\* C4 as amended: an int outside 1..99 is rejected with the very error given
\* for a wrong input type (such as 3.5), which differs from the error given
\* for a wrongly shaped string.
C4_OutOfRangeSameAsWrongType ==
    (/\ ValidateCalled
     /\ case_id.type = "int"
     /\ case_id.n \notin 1..99) =>
        /\ result.status = "error"
        /\ result.kind = "wrong_format_type"
        /\ result = _validate_case_label(OtherId(<<"3", ".", "5">>))
        /\ result # _validate_case_label(StrId(<<"X", "0", "0", "0", "1">>))

C4_Witness ==
    /\ ValidateCalled
    /\ case_id = IntId(100)
    /\ result.kind = "wrong_format_type"

\* C5: a string that does not start with "C" or does not hold exactly 4
\* digits, and an input that is neither int nor str, is rejected with a
\* malformed-label error and no label; a string that starts with "C", holds
\* exactly 4 digits and whose digits are not a multi-aneurysm case number is
\* returned unchanged.
C5_StringShape ==
    ValidateCalled =>
        LET s == case_id.s
            startsC == Len(s) > 0 /\ s[1] = "C"
            digits == SelectSeq(s, LAMBDA c : c \in Digits)
            spellsMultiCase ==
                /\ \A i \in 1..Len(digits) : digits[i] \in DecimalDigits
                /\ ParseInt(digits) \in {28, 57, 74, 88}
        IN  /\ (case_id.type = "str" /\ (~startsC \/ CountDigits(s) # 4)) =>
                   /\ result.status = "error"
                   /\ result.kind \in MalformedKinds
                   /\ result.value = <<>>
            /\ case_id.type = "other" =>
                   /\ result.status = "error"
                   /\ result.kind \in MalformedKinds
                   /\ result.value = <<>>
            /\ (/\ case_id.type = "str"
                /\ startsC
                /\ CountDigits(s) = 4
                /\ ~spellsMultiCase) =>
                   result = Returned(s)

-----------------------------------------------------------------------------
(* Properties of the path builders (checked under SpecPath) *)

\* the subdirectory and the file name of each kind, as the claim lists them
ClaimedSubdir(name) ==
    IF name = "path_to_model_centerline_file"
    THEN <<"m","o","r","p","h","o","l","o","g","y">>
    ELSE <<"s","u","r","f","a","c","e">>

ClaimedFilename(name, m) ==
    CASE name = "path_to_vascular_model_file" ->
            <<"m","o","d","e","l",".","v","t","p">>
      [] name = "path_to_model_centerline_file" ->
            <<"c","e","n","t","e","r","l","i","n","e","s",".","v","t","p">>
      [] name = "path_to_cfd_model_file" ->
            <<"m","o","d","e","l","_","c","f","d",".","s","t","l">>
      [] name = "path_to_healthy_model_file" ->
            <<"m","o","d","e","l","_","h","e","a","l","t","h","y","_",
              "v","e","s","s","e","l",".","v","t","p">>
      [] name = "path_to_aneurysm_file" ->
            <<"a","n","e","u","r","y","s","m","_">> \o m \o <<".","v","t","p">>
      [] name = "path_to_hull_file" ->
            <<"h","u","l","l","_">> \o m \o <<".","v","t","p">>
      [] name = "path_to_ostium_file" ->
            <<"o","s","t","i","u","m","_">> \o m \o <<".","v","t","p">>

\* root/models/label/subdir/filename, the separators written out
ClaimedPath(root, label, subdir, filename) ==
    (IF root = <<"/">> THEN root ELSE root \o <<"/">>)
        \o <<"m","o","d","e","l","s">> \o <<"/">> \o label \o <<"/">>
        \o subdir \o <<"/">> \o filename

\* C6: a path builder fails with the validator's error when the identifier is
\* rejected; otherwise it returns root/models/<validated label>/<subdir of
\* the kind>/<file name of the kind>.
C6_PathComposition ==
    (pc = "done" /\ op \in PathBuilders) =>
        LET v == _validate_case_label(case_id)
        IN  IF v.status = "error"
            THEN result = v
            ELSE result = Returned(ClaimedPath(_get_aneurisk_database_path,
                                               v.value, ClaimedSubdir(op),
                                               ClaimedFilename(op, mode)))

C6_Witness ==
    /\ Called("path_to_model_centerline_file")
    /\ case_id = IntId(5)
    /\ moduleFile = <<"/", "d", "/", "a", "/", "f", ".", "p", "y">>
    /\ result.value =
          <<"/","d","/","m","o","d","e","l","s","/","C","0","0","0","5","/",
            "m","o","r","p","h","o","l","o","g","y","/",
            "c","e","n","t","e","r","l","i","n","e","s",".","v","t","p">>

\* two paths with the same number of segments that differ at most in the last
SameButLastSegment(p, q) ==
    LET ps == Split(p)
        qs == Split(q)
    IN  /\ Len(ps) = Len(qs)
        /\ \A i \in 1..(Len(ps) - 1) : ps[i] = qs[i]

HasSep(m) == \E i \in 1..Len(m) : m[i] = "/"

\* the caller has made the same path-builder call twice
RepeatedCall == pc = "done" /\ op \in PathBuilders /\ previous # NoResult

\* the second of two calls with the same kind, identifier and mode returns
\* (or raises) what the first did
SameAsBefore == RepeatedCall => result = previous

-----------------------------------------------------------------------------
(* Properties of load_cases_data (checked under SpecLoad) *)

LoadCalled == Called("load_cases_data")

RangeErrors == {"range_cases_ids", "range_between"}

HasOutside(S) == \E x \in S : x < 1 \/ x > 99

FailedWithRangeError ==
    /\ result.status = "error"
    /\ result.kind \in RangeErrors
    /\ DOMAIN result.rows = {}

\* C8 as claimed: the call fails with a range error whenever cases_ids or
\* between_ids holds a value outside 1..99, whichever of the two are given.
C8_AnyOutsideValueFails ==
    (/\ LoadCalled
     /\ HasOutside(cases_ids.vals) \/ HasOutside(Range(between_ids.vals))) =>
        FailedWithRangeError

\* C8 as amended: the call fails with a range error exactly when the selector
\* it uses holds a value outside 1..99: cases_ids when given and not empty,
\* otherwise between_ids when given and not empty.  With a non-empty
\* cases_ids, a value outside 1..99 in between_ids alone is not an error.
C8_UsedSelectorOutsideFails ==
    LoadCalled =>
        LET idsUsed == cases_ids.given /\ cases_ids.vals # {}
            betweenUsed ==
                ~idsUsed /\ between_ids.given /\ between_ids.vals # <<>>
            outside ==
                \/ idsUsed /\ HasOutside(cases_ids.vals)
                \/ betweenUsed /\ HasOutside(Range(between_ids.vals))
        IN  /\ outside => FailedWithRangeError
            /\ ~outside => result.status = "ok"

C8_Witness ==
    /\ LoadCalled
    /\ cases_ids = GivenSet({1, 28})
    /\ between_ids = GivenSeq(<<1, 100>>)
    /\ result.status = "ok"

\* the case number of a row label of the dataset, read off the dataset
NumericId(l) == NumOfLabel(l)

\* the labels of the dataset whose case number is in S
RowsWithIdIn(S) == {l \in DOMAIN disk.cases : NumericId(l) \in S}

SubLabelsTogether ==
    \A n \in {28, 57, 74, 88} :
        LET a == BareLabel(n) \o <<"a">>
            b == BareLabel(n) \o <<"b">>
        IN  (a \in DOMAIN disk.cases /\ b \in DOMAIN disk.cases) =>
                (a \in DOMAIN result.rows <=> b \in DOMAIN result.rows)

\* C9 as claimed: the rows returned are those whose numeric id is in cases_ids
\* if cases_ids is given (whatever between_ids is), else those whose numeric
\* id is in the inclusive range if between_ids is given, else all rows; the
\* two sub-labels of a case are selected or left out together.
C9_SelectionByGivenArgument ==
    (LoadCalled /\ result.status = "ok") =>
        /\ cases_ids.given =>
               DOMAIN result.rows = RowsWithIdIn(cases_ids.vals)
        /\ (~cases_ids.given /\ between_ids.given /\ between_ids.vals # <<>>) =>
               DOMAIN result.rows =
                   RowsWithIdIn(Min(Range(between_ids.vals))
                                    ..Max(Range(between_ids.vals)))
        /\ (~cases_ids.given /\ ~between_ids.given) =>
               DOMAIN result.rows = DOMAIN disk.cases
        /\ SubLabelsTogether

\* C9 as amended: the same rule, where an argument counts as given only when
\* it is given and not empty (an empty cases_ids or between_ids is treated
\* like an argument that was not passed).
C9_SelectionByNonEmptyArgument ==
    (LoadCalled /\ result.status = "ok") =>
        LET idsGiven == cases_ids.given /\ cases_ids.vals # {}
            betweenGiven == between_ids.given /\ between_ids.vals # <<>>
        IN  /\ idsGiven =>
                   DOMAIN result.rows = RowsWithIdIn(cases_ids.vals)
            /\ (~idsGiven /\ betweenGiven) =>
                   DOMAIN result.rows =
                       RowsWithIdIn(Min(Range(between_ids.vals))
                                        ..Max(Range(between_ids.vals)))
            /\ (~idsGiven /\ ~betweenGiven) =>
                   DOMAIN result.rows = DOMAIN disk.cases
            /\ SubLabelsTogether

C9_Witness ==
    /\ LoadCalled
    /\ cases_ids = GivenSet({28})
    /\ between_ids = GivenSeq(<<1, 5>>)
    /\ DOMAIN disk.cases = LabelsOf(TableNums)
    /\ DOMAIN result.rows =
          {<<"C", "0", "0", "2", "8", "a">>, <<"C", "0", "0", "2", "8", "b">>}

-----------------------------------------------------------------------------
(* Properties of get_ref_bif_point and get_dome_point (checked under     *)
(* SpecPoint)                                                              *)

PointCalled == pc = "done" /\ op \in {"get_ref_bif_point", "get_dome_point"}

Rejected(id) == _validate_case_label(id).status = "error"

\* C10 as claimed: the identifier is validated before the table is loaded; a
\* rejected identifier fails with the validation error and no CSV file read.
C10_ValidatedBeforeLoad ==
    PointCalled =>
        /\ trace[1] = "validate"
        /\ Rejected(case_id) =>
               (result = _validate_case_label(case_id) /\ filesRead = <<>>)

\* C10 as amended: the table is loaded (the three CSV files read) before the
\* identifier is validated; a rejected identifier fails with the validation
\* error after the files were read; an accepted one is looked up by its
\* validated label, and a label absent from the table gives a not-found
\* error, not a tuple.
C10_LoadedBeforeValidate ==
    PointCalled =>
        LET v == _validate_case_label(case_id)
        IN  /\ filesRead = <<"cases.csv", "patients.csv", "referencepoints.csv">>
            /\ SubSeq(trace, 1, 2) = <<"load", "validate">>
            /\ v.status = "error" => (result = v /\ Len(trace) = 2)
            /\ v.status = "ok" =>
                   /\ trace = <<"load", "validate", "lookup">>
                   /\ IF v.value \in DOMAIN disk.cases
                      THEN /\ result.status = "ok"
                           /\ result.value =
                                 IF op = "get_dome_point"
                                 THEN disk.points[v.value].DomePoint
                                 ELSE disk.points[v.value].ICABifPoint
                      ELSE /\ result.status = "error"
                           /\ result.kind = "key_error"

C10_Witness ==
    /\ Called("get_dome_point")
    /\ case_id = IntId(28)
    /\ result.kind = "ambiguous"
    /\ filesRead = CsvFilesRead
    /\ DOMAIN disk.cases = LabelsOf(TableNums)

=============================================================================
